---- MODULE Spec2Model ----
(***************************************************************************)
(* Model of se3.py: a gem5 configuration script that assembles a system,   *)
(* configures the pipeline of its CPUs, instantiates the simulation and    *)
(* then drives it in fixed intervals, dumping, resetting and archiving the *)
(* statistics after each interval.                                         *)
(*                                                                         *)
(* The script is one sequential thread; pc is its position.  The engine    *)
(* (m5) is seen through what the script asks of it: simulate(n) advances   *)
(* simulated time by n, stats.dump() writes a snapshot of the counters     *)
(* accumulated since the last stats.reset(), simulate() without a duration *)
(* runs for as long as the engine decides.                                 *)
(***************************************************************************)
EXTENDS Integers, Sequences, FiniteSets

\* ---------------------------------------------------------------- bounds
MaxCpus == 2
MaxWorkloads == 2
MaxInterval == 3
MaxBudget == 4
MaxClock == 1
MaxCloseOut == 1
StartSecond == 59

\* ------------------------------------------------------ program constants
CycleInterval == 10
TotalCycles == 100
Width == 4
SmtThreads == 2
PidBase == 100
DefaultThreads == 1
Unset == 0

CpuTypes == {"DerivO3CPU", "TimingSimpleCPU"}

VARIABLES
    args,            \* the parsed command line: cpu_type, smt, num_cpus, cmd
    multiprocesses,  \* list of process pids built by get_processes
    numThreads,      \* second result of get_processes
    cpu,             \* system.cpu: index -> the CPU object's parameters
    instantiated,    \* m5.instantiate() has been called
    error,           \* the exception that ended the script, or "none"
    pc,              \* position of the script
    cycle_interval, total_cycles, current_cycle,
    advances,        \* number of m5.simulate(cycle_interval) calls
    simTicks,        \* simulated time the engine has advanced in total
    sinceReset,      \* simulated time accumulated in the counters since reset
    snapshots,       \* what each stats.dump() serialized, in order
    resets,          \* number of stats.reset() calls
    statsFile,       \* index of the dump whose file is at m5out/stats.txt, 0 if absent
    now,             \* wall clock, seconds after the start of the run
    names,           \* new_stats_filename of each iteration, in order
    renames,         \* number of os.rename calls
    notFound,        \* iterations whose archive step found no stats.txt
    lastPrint        \* last line written to the console

vars == <<args, multiprocesses, numThreads, cpu, instantiated, error, pc,
          cycle_interval, total_cycles, current_cycle, advances, simTicks,
          sinceReset, snapshots, resets, statsFile, now, names, renames,
          notFound, lastPrint>>

cfgVars == <<args, multiprocesses, numThreads, cpu, instantiated, error>>
schedVars == <<cycle_interval, total_cycles>>
engineVars == <<advances, simTicks, sinceReset, snapshots, resets, statsFile>>
archiveVars == <<now, names, renames, notFound, lastPrint>>

\* ------------------------------------------------------------ formatting
DigitChars == <<"0", "1", "2", "3", "4", "5", "6", "7", "8", "9">>

Digit(d) == DigitChars[d + 1]

RECURSIVE Str(_)
\* str(n) of a non-negative integer, as its decimal characters
Str(n) == IF n < 10 THEN <<Digit(n)>> ELSE Str(n \div 10) \o <<Digit(n % 10)>>

\* a two-digit zero-padded field of strftime (%H, %M, %S)
Pad2(n) == <<Digit((n \div 10) % 10), Digit(n % 10)>>

\* time.strftime("%Y%m%d-%H%M%S") at wall-clock second t of the run's day
StrfTime(t) ==
    LET s == StartSecond + t
    IN  <<"Y", "Y", "Y", "Y", "m", "m", "d", "d", "-">>
        \o Pad2((s \div 3600) % 24) \o Pad2((s \div 60) % 60) \o Pad2(s % 60)

\* variant: the archive name carries the timestamp only
NameNoCycle(t, cycle) == <<"m5out/stats_">> \o StrfTime(t) \o <<".txt">>

\* os.path.join(m5out_dir, f"stats_{timestamp}_cycle_{current_cycle}.txt")
NewStatsFilename(t, cycle) ==
    <<"m5out/stats_">> \o StrfTime(t) \o <<"_cycle_">> \o Str(cycle) \o <<".txt">>

\* the characters between "_cycle_" and ".txt" of an archive name
CycleField(name) == SubSeq(name, 18, Len(name) - 1)

\* the timestamp characters of an archive name
StampField(name) == SubSeq(name, 2, 16)

RECURSIVE Sum(_)
Sum(s) == IF s = <<>> THEN 0 ELSE Head(s) + Sum(Tail(s))

\* ------------------------------------------------------------------ init
NewCpu ==
    [issueWidth |-> Unset, fetchWidth |-> Unset, decodeWidth |-> Unset,
     executeWidth |-> Unset, commitWidth |-> Unset,
     numThreads |-> DefaultThreads, workload |-> <<>>, branchPred |-> "default",
     threadsCreated |-> FALSE, tracer |-> "default", progressInterval |-> Unset]

Init ==
    /\ args \in [cpu_type : CpuTypes, smt : BOOLEAN,
                 num_cpus : 1..MaxCpus, cmd : 1..MaxWorkloads]
    /\ multiprocesses = <<>>
    /\ numThreads = 0
    /\ cpu = <<>>
    /\ instantiated = FALSE
    /\ error = "none"
    /\ pc = "get_processes"
    /\ cycle_interval = 0
    /\ total_cycles = 0
    /\ current_cycle = 0
    /\ advances = 0
    /\ simTicks = 0
    /\ sinceReset = 0
    /\ snapshots = <<>>
    /\ resets = 0
    /\ statsFile = 0
    /\ now = 0
    /\ names = <<>>
    /\ renames = 0
    /\ notFound = 0
    /\ lastPrint = "none"

\* ------------------------------------------------- system assembly steps
CPUClass == args.cpu_type

\* args.cmd is modelled by the number of ";"-separated workloads in it; the
\* failed assert leaves the script's multiprocesses and numThreads unassigned
GetProcesses ==
    /\ pc = "get_processes"
    /\ IF args.smt /\ args.cpu_type # "DerivO3CPU"
       THEN /\ error' = "AssertionError"
            /\ pc' = "failed"
            /\ UNCHANGED <<multiprocesses, numThreads>>
       ELSE /\ multiprocesses' = [idx \in 1..args.cmd |-> PidBase + (idx - 1)]
            /\ numThreads' = IF args.smt THEN args.cmd ELSE 1
            /\ pc' = "system"
            /\ UNCHANGED error
    /\ UNCHANGED <<args, cpu, instantiated>>
    /\ UNCHANGED <<schedVars, current_cycle, engineVars, archiveVars>>

BuildSystem ==
    /\ pc = "system"
    /\ cpu' = [i \in 0..(args.num_cpus - 1) |-> NewCpu]
    /\ pc' = "branch_pred"
    /\ UNCHANGED <<args, multiprocesses, numThreads, instantiated, error>>
    /\ UNCHANGED <<schedVars, current_cycle, engineVars, archiveVars>>

SetBranchPred ==
    /\ pc = "branch_pred"
    /\ cpu' = [i \in DOMAIN cpu |-> [cpu[i] EXCEPT !.branchPred = "StaticPred"]]
    /\ pc' = "issue_width"
    /\ UNCHANGED <<args, multiprocesses, numThreads, instantiated, error>>
    /\ UNCHANGED <<schedVars, current_cycle, engineVars, archiveVars>>

SetIssueWidthOf(c, i) == [c EXCEPT !.issueWidth = Width]

SetIssueWidth ==
    /\ pc = "issue_width"
    /\ cpu' = [i \in DOMAIN cpu |-> SetIssueWidthOf(cpu[i], i)]
    /\ pc' = "workload"
    /\ UNCHANGED <<args, multiprocesses, numThreads, instantiated, error>>
    /\ UNCHANGED <<schedVars, current_cycle, engineVars, archiveVars>>

\* for i in range(np): multiprocesses[i] raises IndexError once i passes the list
AssignWorkloads ==
    /\ pc = "workload"
    /\ LET n == Len(multiprocesses)
           ok == n = 1 \/ args.num_cpus <= n
       IN  /\ cpu' = [i \in DOMAIN cpu |->
                        IF n = 1
                        THEN [cpu[i] EXCEPT !.workload = <<multiprocesses[1]>>,
                                            !.threadsCreated = TRUE]
                        ELSE IF i + 1 <= n
                        THEN [cpu[i] EXCEPT !.workload = <<multiprocesses[i + 1]>>,
                                            !.threadsCreated = TRUE]
                        ELSE cpu[i]]
           /\ pc' = IF ok THEN "smt" ELSE "failed"
           /\ error' = IF ok THEN error ELSE "IndexError"
    /\ UNCHANGED <<args, multiprocesses, numThreads, instantiated>>
    /\ UNCHANGED <<schedVars, current_cycle, engineVars, archiveVars>>

EnableSmt ==
    /\ pc = "smt"
    /\ cpu' = [cpu EXCEPT ![0] = [@ EXCEPT !.workload = multiprocesses,
                                           !.numThreads = SmtThreads]]
    /\ pc' = "o3_widths"
    /\ UNCHANGED <<args, multiprocesses, numThreads, instantiated, error>>
    /\ UNCHANGED <<schedVars, current_cycle, engineVars, archiveVars>>

\* variant: the commit width is set one short
O3WidthsShort(c) ==
    [c EXCEPT !.fetchWidth = Width, !.decodeWidth = Width, !.issueWidth = Width,
              !.executeWidth = Width, !.commitWidth = Width - 1,
              !.tracer = "ExeTracer", !.progressInterval = 1]

O3Widths(c) ==
    [c EXCEPT !.fetchWidth = Width, !.decodeWidth = Width, !.issueWidth = Width,
              !.executeWidth = Width, !.commitWidth = Width,
              !.tracer = "ExeTracer", !.progressInterval = 1]

ConfigureO3 ==
    /\ pc = "o3_widths"
    /\ cpu' = IF CPUClass = "DerivO3CPU"
              THEN [i \in DOMAIN cpu |-> O3Widths(cpu[i])]
              ELSE cpu
    /\ pc' = "instantiate"
    /\ UNCHANGED <<args, multiprocesses, numThreads, instantiated, error>>
    /\ UNCHANGED <<schedVars, current_cycle, engineVars, archiveVars>>

Instantiate ==
    /\ pc = "instantiate"
    /\ instantiated' = TRUE
    /\ pc' = "loop_init"
    /\ UNCHANGED <<args, multiprocesses, numThreads, cpu, error>>
    /\ UNCHANGED <<schedVars, current_cycle, engineVars, archiveVars>>

\* ------------------------------------------------------- interval loop
\* the script's own schedule, and the small schedules the loop is also run on
Schedules ==
    {<<CycleInterval, TotalCycles>>} \cup ((1..MaxInterval) \X (1..MaxBudget))

LoopInit ==
    /\ pc = "loop_init"
    /\ \E s \in Schedules :
          /\ cycle_interval' = s[1]
          /\ total_cycles' = s[2]
    /\ current_cycle' = 0
    /\ pc' = "while"
    /\ UNCHANGED <<cfgVars, engineVars, archiveVars>>

\* variant: the loop test admits one more iteration
LoopTestOffByOne == current_cycle <= total_cycles

\* while current_cycle < total_cycles
LoopTest == current_cycle < total_cycles

While ==
    /\ pc = "while"
    /\ pc' = IF LoopTest THEN "simulate" ELSE "final_dump"
    /\ UNCHANGED <<cfgVars, schedVars, current_cycle, engineVars, archiveVars>>

\* variant: the last advance is cut to what is left of the budget
SimulateTruncated ==
    /\ pc = "simulate"
    /\ LET left == total_cycles - current_cycle
           d == IF left < cycle_interval THEN left ELSE cycle_interval
       IN  /\ simTicks' = simTicks + d
           /\ sinceReset' = sinceReset + d
    /\ advances' = advances + 1
    /\ pc' = "dump"
    /\ UNCHANGED <<cfgVars, schedVars, current_cycle, snapshots, resets, statsFile>>
    /\ UNCHANGED archiveVars

\* m5.simulate(cycle_interval)
Simulate ==
    /\ pc = "simulate"
    /\ advances' = advances + 1
    /\ simTicks' = simTicks + cycle_interval
    /\ sinceReset' = sinceReset + cycle_interval
    /\ pc' = "dump"
    /\ UNCHANGED <<cfgVars, schedVars, current_cycle, snapshots, resets, statsFile>>
    /\ UNCHANGED archiveVars

\* variant: the dump serializes the cumulative total
DumpCumulative(next) ==
    /\ snapshots' = Append(snapshots, simTicks)
    /\ \E wrote \in BOOLEAN :
          statsFile' = IF wrote THEN Len(snapshots) + 1 ELSE statsFile
    /\ pc' = next
    /\ UNCHANGED <<cfgVars, schedVars, current_cycle, advances, simTicks, sinceReset, resets>>
    /\ UNCHANGED archiveVars

\* m5.stats.dump(): the counters since the last reset are serialized; whether the
\* file appears at m5out/stats.txt is the engine's and the file system's doing
Dump(next) ==
    /\ snapshots' = Append(snapshots, sinceReset)
    /\ \E wrote \in BOOLEAN :
          statsFile' = IF wrote THEN Len(snapshots) + 1 ELSE statsFile
    /\ pc' = next
    /\ UNCHANGED <<cfgVars, schedVars, current_cycle, advances, simTicks, sinceReset, resets>>
    /\ UNCHANGED archiveVars

DumpStats ==
    /\ pc = "dump"
    /\ Dump("reset")

\* variant: the counters are not zeroed
ResetSkipped ==
    /\ pc = "reset"
    /\ resets' = resets + 1
    /\ pc' = "incr"
    /\ UNCHANGED <<cfgVars, schedVars, current_cycle, advances, simTicks, sinceReset>>
    /\ UNCHANGED <<snapshots, statsFile, archiveVars>>

\* m5.stats.reset()
ResetStats ==
    /\ pc = "reset"
    /\ sinceReset' = 0
    /\ resets' = resets + 1
    /\ pc' = "incr"
    /\ UNCHANGED <<cfgVars, schedVars, current_cycle, advances, simTicks, snapshots>>
    /\ UNCHANGED <<statsFile, archiveVars>>

\* current_cycle += cycle_interval
Incr ==
    /\ pc = "incr"
    /\ current_cycle' = current_cycle + cycle_interval
    /\ pc' = "archive"
    /\ UNCHANGED <<cfgVars, schedVars, engineVars, archiveVars>>

\* variant: the snapshot is copied, leaving stats.txt in place
CopyInsteadOfMove ==
    /\ renames' = renames + 1
    /\ lastPrint' = "saved"
    /\ pc' = "while"
    /\ UNCHANGED <<statsFile, notFound, error>>

\* os.rename(stats_file_path, new_stats_filename) and the "saved" message
Rename ==
    /\ statsFile' = 0
    /\ renames' = renames + 1
    /\ lastPrint' = "saved"
    /\ pc' = "while"
    /\ UNCHANGED <<notFound, error>>

\* variant: a missing stats.txt ends the script
RaiseOnMissing ==
    /\ notFound' = notFound + 1
    /\ lastPrint' = "not found"
    /\ error' = "FileNotFoundError"
    /\ pc' = "failed"
    /\ UNCHANGED <<statsFile, renames>>

\* the else branch: print("stats.txt not found in m5out.")
ReportMissing ==
    /\ notFound' = notFound + 1
    /\ lastPrint' = "not found"
    /\ pc' = "while"
    /\ UNCHANGED <<statsFile, renames, error>>

\* timestamp, new_stats_filename, then os.rename or the not-found message.  The
\* wall clock is read once; it has not gone back since the previous read.
Archive ==
    /\ pc = "archive"
    /\ \E t \in now..MaxClock :
          /\ now' = t
          /\ names' = Append(names, NewStatsFilename(t, current_cycle))
    /\ IF statsFile # 0 THEN Rename ELSE ReportMissing
    /\ UNCHANGED <<args, multiprocesses, numThreads, cpu, instantiated>>
    /\ UNCHANGED <<schedVars, current_cycle, advances, simTicks, sinceReset>>
    /\ UNCHANGED <<snapshots, resets>>

\* variant: the trailing dump is followed by a reset, as in the loop
FinalDumpAndReset ==
    /\ pc = "final_dump"
    /\ snapshots' = Append(snapshots, sinceReset)
    /\ \E wrote \in BOOLEAN :
          statsFile' = IF wrote THEN Len(snapshots) + 1 ELSE statsFile
    /\ sinceReset' = 0
    /\ resets' = resets + 1
    /\ pc' = "close"
    /\ UNCHANGED <<cfgVars, schedVars, current_cycle, advances, simTicks, archiveVars>>

\* the final m5.stats.dump() after the loop
FinalDump ==
    /\ pc = "final_dump"
    /\ Dump("close")

\* m5.simulate() with no duration: the engine runs for as long as it decides
CloseOut ==
    /\ pc = "close"
    /\ \E d \in 0..MaxCloseOut :
          /\ simTicks' = simTicks + d
          /\ sinceReset' = sinceReset + d
    /\ pc' = "print"
    /\ UNCHANGED <<cfgVars, schedVars, current_cycle, advances, snapshots, resets>>
    /\ UNCHANGED statsFile
    /\ UNCHANGED archiveVars

PrintComplete ==
    /\ pc = "print"
    /\ lastPrint' = "complete"
    /\ pc' = "done"
    /\ UNCHANGED <<cfgVars, schedVars, current_cycle, engineVars>>
    /\ UNCHANGED <<now, names, renames, notFound>>

Next ==
    \/ GetProcesses
    \/ BuildSystem
    \/ SetBranchPred
    \/ SetIssueWidth
    \/ AssignWorkloads
    \/ EnableSmt
    \/ ConfigureO3
    \/ Instantiate
    \/ LoopInit
    \/ While
    \/ Simulate
    \/ DumpStats
    \/ ResetStats
    \/ Incr
    \/ Archive
    \/ FinalDump
    \/ CloseOut
    \/ PrintComplete

Spec == Init /\ [][Next]_vars

\* the default command line: one CPU, one workload (the loop reads neither)
InitOneCpu ==
    /\ Init
    /\ args.num_cpus = 1
    /\ args.cmd = 1

\* the script is one thread that always takes its next step
FairSpec == InitOneCpu /\ [][Next]_vars /\ WF_vars(Next)

\* ----------------------------------------------------------- properties
CeilDiv(a, b) == (a + b - 1) \div b

AfterLoop == pc \in {"final_dump", "close", "print", "done"}

AfterFinalDump == pc \in {"close", "print", "done"}

ExactMultiple == cycle_interval > 0 /\ total_cycles % cycle_interval = 0

\* the per-interval snapshots: all of them but the trailing one
InLoopSnapshots ==
    IF AfterFinalDump THEN SubSeq(snapshots, 1, Len(snapshots) - 1) ELSE snapshots

AllWidthsSet(c) ==
    /\ c.fetchWidth = Width
    /\ c.decodeWidth = Width
    /\ c.issueWidth = Width
    /\ c.executeWidth = Width
    /\ c.commitWidth = Width

\* C1: when total_cycles = N * cycle_interval the loop ends, after exactly N
\* advance/dump/reset/archive iterations with current_cycle = total_cycles; the run
\* ends with exactly one more dump; the k-th archive name carries k * cycle_interval.
C1_ExactIterations ==
    /\ [](AfterLoop /\ ExactMultiple =>
            LET N == total_cycles \div cycle_interval
            IN  /\ advances = N
                /\ resets = N
                /\ Len(names) = N
                /\ renames + notFound = N
                /\ Len(snapshots) = IF pc = "final_dump" THEN N ELSE N + 1
                /\ current_cycle = total_cycles
                /\ \A k \in 1..N : CycleField(names[k]) = Str(k * cycle_interval))
    /\ (pc = "while" /\ ExactMultiple) ~> (pc = "done")

C1_Witness ==
    /\ pc = "done"
    /\ cycle_interval = CycleInterval
    /\ total_cycles = TotalCycles
    /\ Len(names) = 10
    /\ Len(snapshots) = 11
    /\ CycleField(names[1]) = <<"1", "0">>
    /\ CycleField(names[10]) = <<"1", "0", "0">>

\* C2: when cycle_interval does not divide total_cycles the loop makes exactly
\* ceil(total_cycles / cycle_interval) advances, each of the full cycle_interval,
\* and ends with total_cycles <= current_cycle < total_cycles + cycle_interval.
C2_FullLastInterval ==
    /\ [](AfterLoop /\ cycle_interval > 0 /\ ~ExactMultiple =>
            /\ advances = CeilDiv(total_cycles, cycle_interval)
            /\ simTicks - (IF pc \in {"print", "done"} THEN sinceReset ELSE 0)
                 = advances * cycle_interval
            /\ current_cycle >= total_cycles
            /\ current_cycle < total_cycles + cycle_interval)
    /\ [][advances' # advances => simTicks' = simTicks + cycle_interval]_vars

C2_Witness ==
    /\ pc = "done"
    /\ cycle_interval = 3
    /\ total_cycles = 4
    /\ advances = 2
    /\ current_cycle = 6

\* C3: no two iterations generate the same archive name, whatever the wall clock
\* reads at each of them.
C3_UniqueNames ==
    \A i, j \in DOMAIN names : i # j => names[i] # names[j]

C3_Witness ==
    \E i, j \in DOMAIN names :
        /\ i # j
        /\ StampField(names[i]) = StampField(names[j])
        /\ renames >= 2

\* C4: an archive step that finds no stats.txt renames nothing, raises nothing,
\* prints the not-found line and goes back to the loop test with current_cycle
\* already advanced; the loop makes as many iterations as with the file present.
C4_MissingFileTolerated ==
    /\ [][pc = "archive" /\ statsFile = 0 =>
            /\ renames' = renames
            /\ statsFile' = 0
            /\ error' = "none"
            /\ lastPrint' = "not found"
            /\ notFound' = notFound + 1
            /\ pc' = "while"
            /\ current_cycle = (Len(names) + 1) * cycle_interval
            /\ current_cycle' = current_cycle]_vars
    /\ [](AfterLoop => Len(names) = CeilDiv(total_cycles, cycle_interval))
    /\ [](pc = "failed" => ~instantiated)

C4_Witness ==
    /\ pc = "done"
    /\ notFound >= 1
    /\ renames >= 1
    /\ error = "none"

\* C5: a CPU whose class is not the multithreading one (DerivO3CPU) never gets more
\* than one thread or a list of workloads: the request fails before any assignment.
C5_SmtRejected ==
    CPUClass # "DerivO3CPU" =>
        \A i \in DOMAIN cpu :
            /\ cpu[i].numThreads = DefaultThreads
            /\ Len(cpu[i].workload) <= 1

\* C6 as stated: at instantiation every CPU has all five widths set, for any class.
C6_AllClasses ==
    instantiated => \A i \in DOMAIN cpu : AllWidthsSet(cpu[i])

\* C6: at instantiation every CPU has issueWidth = 4; when the CPU class is
\* DerivO3CPU every CPU has all five widths = 4, and for any other class the
\* fetch, decode, execute and commit widths are left as constructed.
C6_WidthsAtInstantiate ==
    instantiated =>
        \A i \in DOMAIN cpu :
            /\ cpu[i].issueWidth = Width
            /\ IF CPUClass = "DerivO3CPU"
               THEN AllWidthsSet(cpu[i])
               ELSE /\ cpu[i].fetchWidth = Unset
                    /\ cpu[i].decodeWidth = Unset
                    /\ cpu[i].executeWidth = Unset
                    /\ cpu[i].commitWidth = Unset

C6_Witness ==
    /\ instantiated
    /\ CPUClass = "DerivO3CPU"
    /\ args.num_cpus = 2
    /\ AllWidthsSet(cpu[1])

\* C7: advance, dump, reset and archive alternate strictly in that order; a rename
\* moves the file of the dump of the same iteration; a dump never finds a stats.txt
\* that is still waiting to be archived.
C7_DumpRenameOrder ==
    /\ [](/\ advances >= Len(InLoopSnapshots)
          /\ Len(InLoopSnapshots) >= resets
          /\ resets >= Len(names)
          /\ Len(names) >= advances - 1)
    /\ [][renames' # renames =>
            /\ statsFile = Len(snapshots)
            /\ Len(snapshots) = Len(names) + 1
            /\ statsFile' = 0]_vars
    /\ [][snapshots' # snapshots => statsFile = 0]_vars

C7_Witness ==
    /\ pc = "dump"
    /\ renames >= 2
    /\ notFound = 0

\* C8: every snapshot dumped inside the loop covers exactly cycle_interval of
\* simulated time, and the counters are at zero after each reset.
C8_IntervalSnapshots ==
    /\ \A k \in DOMAIN InLoopSnapshots : InLoopSnapshots[k] = cycle_interval
    /\ pc = "dump" => sinceReset = cycle_interval
    /\ pc \in {"incr", "archive", "while"} => sinceReset = 0

C8_Witness ==
    /\ pc = "reset"
    /\ Len(snapshots) >= 3
    /\ snapshots[3] = cycle_interval

C10_EmptyTrailingSnapshot ==
    /\ pc = "final_dump" => sinceReset = 0
    /\ AfterFinalDump => snapshots[Len(snapshots)] = 0
    /\ pc = "done" => /\ Sum(snapshots) = current_cycle
                      /\ simTicks - Sum(snapshots) = sinceReset

C10_Witness ==
    /\ pc = "done"
    /\ snapshots[Len(snapshots)] = 0
    /\ sinceReset > 0
    /\ simTicks > Sum(snapshots)

====
